---- MODULE Spec2Model ----
(***************************************************************************)
(* Model of dlt_workflow_orchestration.py: the WorkflowOrchestrationDlt    *)
(* object, its date-range enumerator generate_file_names, the generator   *)
(* extract_nyc_taxi_data returned by get_resource, the pipeline runner     *)
(* that consumes it, and main.                                             *)
(*                                                                         *)
(* A date is a record [y, m, d]; d = 0 stands for a string that carries no *)
(* day ("YYYY-MM"), d >= 1 for "YYYY-MM-DD".                               *)
(***************************************************************************)
EXTENDS Integers, Sequences, FiniteSets, TLC

VARIABLES
    taxi_type,      \* self.taxi_type
    start_date,     \* self.start_date
    end_date,       \* self.end_date
    base_url,       \* self.base_url
    mainPc,         \* position of main(): "start", "running", "exited"; "lib" when the object is driven directly
    exit_code,      \* process exit status, -1 while the process runs
    conPc,          \* the runner consuming the generator: "idle", "ready", "waiting", "done", "failed"
    genPc,          \* position of extract_nyc_taxi_data: "none", "created", "loop", "status", "try", "suspended", "exhausted", "raised"
    file_names,     \* the generator's local file_names
    idx,            \* position of the for loop in file_names (1-based), 0 before the loop
    response,       \* the generator's local response
    df,             \* the generator's local df
    received,       \* the items handed to the runner by yield, in order
    requests,       \* the URLs of the HTTP GETs issued in the current run, in order
    remote,         \* what the remote server answers per URL, fixed once revealed
    log,            \* logs/app.log, append only
    runNo,          \* number of get_resource invocations consumed so far (direct use)
    prevReceived,   \* received of the previous full consumption
    prevRequests,   \* requests of the previous full consumption
    called,         \* generate_file_names has been called directly
    ret             \* its return value

vars == <<taxi_type, start_date, end_date, base_url, mainPc, exit_code, conPc,
          genPc, file_names, idx, response, df, received, requests, remote,
          log, runNo, prevReceived, prevRequests, called, ret>>

objVars == <<taxi_type, start_date, end_date, base_url>>
genLocals == <<file_names, idx, response, df>>
callerVars == <<runNo, prevReceived, prevRequests>>
directVars == <<called, ret>>

-----------------------------------------------------------------------------
(* Bounds *)

\* number of consecutive months, from 2022-11 on, the run specifications draw dates from
MaxFiles == 3
\* number of years, from 2022 on, the enumerator specification draws dates from
NumYears == 2
\* number of times the object's resource is invoked and consumed in SpecTwice
MaxRuns == 2

HTTP_OK == 200

TaxiTypes == {"yellow", "green"}

-----------------------------------------------------------------------------
(* Text formatting *)

DigitStr == <<"0", "1", "2", "3", "4", "5", "6", "7", "8", "9">>

Digit(n) == DigitStr[n + 1]

\* str(n) for a non-negative integer
RECURSIVE IntStr(_)
IntStr(n) == IF n < 10 THEN Digit(n) ELSE IntStr(n \div 10) \o Digit(n % 10)

\* dt.strftime('%Y-%m'): four-digit year, two-digit zero-padded month
strftime_Ym_nopad(ts) == IntStr(ts.y) \o "-" \o IntStr(ts.m)

strftime_Ym(ts) ==
    Digit((ts.y \div 1000) % 10) \o Digit((ts.y \div 100) % 10)
        \o Digit((ts.y \div 10) % 10) \o Digit(ts.y % 10)
        \o "-" \o Digit((ts.m \div 10) % 10) \o Digit(ts.m % 10)

-----------------------------------------------------------------------------
(* pd.date_range(start, end, freq='MS') *)

\* pd.Timestamp of a date string: a missing day is the first of the month
to_timestamp(date) == [y |-> date.y, m |-> date.m, d |-> IF date.d = 0 THEN 1 ELSE date.d]

TsLeq(a, b) ==
    \/ a.y < b.y
    \/ a.y = b.y /\ a.m < b.m
    \/ a.y = b.y /\ a.m = b.m /\ a.d <= b.d

\* MonthBegin(1) applied to a month start: the first of the next month
MonthBeginNext(ts) ==
    IF ts.m = 12 THEN [y |-> ts.y + 1, m |-> 1, d |-> 1]
                 ELSE [y |-> ts.y, m |-> ts.m + 1, d |-> 1]

\* MonthBegin.rollforward: a timestamp that is no month start moves to the next one
MonthBeginRollForward_floor(ts) == [y |-> ts.y, m |-> ts.m, d |-> 1]

MonthBeginRollForward(ts) == IF ts.d = 1 THEN ts ELSE MonthBeginNext(ts)

RECURSIVE RangeFrom(_, _)
RangeFrom(cur, last) ==
    IF TsLeq(cur, last) THEN <<cur>> \o RangeFrom(MonthBeginNext(cur), last) ELSE <<>>

date_range(start, end) ==
    RangeFrom(MonthBeginRollForward(to_timestamp(start)), to_timestamp(end))

\* WorkflowOrchestrationDlt.generate_file_names
generate_file_names ==
    LET date_rng == date_range(start_date, end_date)
    IN  [i \in 1..Len(date_rng) |->
            taxi_type \o "_tripdata_" \o strftime_Ym(date_rng[i]) \o ".csv.gz"]

\* WorkflowOrchestrationDlt.__init__: self.base_url
BaseUrlOf(t) == "https://github.com/DataTalksClub/nyc-tlc-data/releases/download/" \o t \o "/"

-----------------------------------------------------------------------------
(* The remote server and the response of requests.get *)

\* a CSV text: a header line and data lines, or text pd.read_csv rejects
GoodCsv(url) == [well_formed |-> TRUE, header |-> <<"VendorID", "source">>,
                 lines |-> << <<1, url>> >>]
BadCsv == [well_formed |-> FALSE, header |-> <<>>, lines |-> <<>>]

\* a response body: whether reading it off the stream succeeds, whether it is a
\* gzip stream, whether the decompressed bytes are UTF-8, and the text they hold
Body(read_ok, gz, utf, csv) == [read_ok |-> read_ok, gzip |-> gz, utf8 |-> utf, csv |-> csv]

ErrorPage == Body(TRUE, FALSE, TRUE, BadCsv)

\* what requests.get(url, stream=True) can do: raise, or return a response
Outcomes(url) ==
    {[get |-> "raise", status_code |-> 0, content |-> ErrorPage]}
    \cup {[get |-> "ok", status_code |-> sc, content |-> ErrorPage] : sc \in {404, 500}}
    \cup {[get |-> "ok", status_code |-> HTTP_OK, content |-> b] :
            b \in {Body(FALSE, TRUE, TRUE, GoodCsv(url)),
                   Body(TRUE, FALSE, TRUE, GoodCsv(url)),
                   Body(TRUE, TRUE, FALSE, GoodCsv(url)),
                   Body(TRUE, TRUE, TRUE, BadCsv),
                   Body(TRUE, TRUE, TRUE, GoodCsv(url))}}

NoResponse == [get |-> "none", status_code |-> 0, content |-> ErrorPage]
NoDf == [columns |-> <<>>, data |-> <<>>]

\* gzip.open(io.BytesIO(response.content), 'rt', encoding='utf-8') and pd.read_csv(f):
\* the first failing stage raises; otherwise the DataFrame of the text
ReadCsv(resp) ==
    LET b == resp.content
    IN  IF ~b.read_ok THEN [ok |-> FALSE, err |-> "Connection broken", df |-> NoDf]
        ELSE IF ~b.gzip THEN [ok |-> FALSE, err |-> "Not a gzipped file", df |-> NoDf]
        ELSE IF ~b.utf8 THEN [ok |-> FALSE, err |-> "'utf-8' codec can't decode byte", df |-> NoDf]
        ELSE IF ~b.csv.well_formed THEN [ok |-> FALSE, err |-> "Error tokenizing data", df |-> NoDf]
        ELSE [ok |-> TRUE, err |-> "", df |-> [columns |-> b.csv.header, data |-> b.csv.lines]]

\* df.to_dict(orient="records"): one mapping column name -> cell per row
to_dict_records(frame) ==
    [r \in 1..Len(frame.data) |->
        [c \in {frame.columns[k] : k \in 1..Len(frame.columns)} |->
            frame.data[r][CHOOSE k \in 1..Len(frame.columns) : frame.columns[k] = c]]]

-----------------------------------------------------------------------------
(* The log *)

Entry(level, msg) == [level |-> level, msg |-> msg]

\* Python's repr of a list of strings
RECURSIVE ReprTail(_)
ReprTail(names) ==
    IF names = <<>> THEN ""
    ELSE ", '" \o Head(names) \o "'" \o ReprTail(Tail(names))

ListRepr(names) ==
    IF names = <<>> THEN "[]"
    ELSE "['" \o Head(names) \o "'" \o ReprTail(Tail(names)) \o "]"

-----------------------------------------------------------------------------
(* Initial states *)

\* the months the run specifications draw their dates from: MaxFiles months from 2022-11
RECURSIVE MonthsFrom(_, _)
MonthsFrom(ts, n) == IF n = 0 THEN {} ELSE {ts} \cup MonthsFrom(MonthBeginNext(ts), n - 1)

RunDates == {[y |-> ts.y, m |-> ts.m, d |-> 0] :
                ts \in MonthsFrom([y |-> 2022, m |-> 11, d |-> 1], MaxFiles)}

\* the dates the enumerator specification draws from, with and without a day
NameDates == [y : 2022..(2022 + NumYears - 1), m : 1..12, d : {0, 1, 15, 20}]

InitWith(dates, pc) ==
    /\ taxi_type \in TaxiTypes
    /\ start_date \in dates
    /\ end_date \in dates
    /\ base_url = BaseUrlOf(taxi_type)
    /\ mainPc = pc
    /\ exit_code = -1
    /\ conPc = "idle"
    /\ genPc = "none"
    /\ file_names = <<>>
    /\ idx = 0
    /\ response = NoResponse
    /\ df = NoDf
    /\ received = <<>>
    /\ requests = <<>>
    /\ remote = <<>>
    /\ log = <<>>
    /\ runNo = 0
    /\ prevReceived = <<>>
    /\ prevRequests = <<>>
    /\ called = FALSE
    /\ ret = <<>>

Init == InitWith(RunDates, "start")

-----------------------------------------------------------------------------
(* get_resource and the generator extract_nyc_taxi_data *)

\* get_resource: calling the decorated generator function creates a generator
\* object with fresh locals; none of its body runs yet
GetResource_resume ==
    /\ genPc' = IF genPc = "none" THEN "created" ELSE "loop"
    /\ UNCHANGED genLocals

GetResource ==
    /\ genPc' = "created"
    /\ file_names' = <<>>
    /\ idx' = 0
    /\ response' = NoResponse
    /\ df' = NoDf

\* the generator runs only while the runner is inside next()
Running(pc) == conPc = "waiting" /\ genPc = pc

\* lines 46-47: enumerate the files and log the list; the for loop starts
GenStart ==
    /\ Running("created")
    /\ file_names' = generate_file_names
    /\ log' = Append(log, Entry("INFO", "Generated file names: " \o ListRepr(file_names')))
    /\ idx' = 1
    /\ genPc' = "loop"
    /\ UNCHANGED <<objVars, mainPc, exit_code, conPc, response, df, received,
                   requests, remote, callerVars, directVars>>

\* the server's answer for url: the one already revealed, or any outcome
Answers(url) == IF url \in DOMAIN remote THEN {remote[url]} ELSE Outcomes(url)

\* lines 49-54: the next file of the loop; logger.debug is below the INFO
\* level of the log. requests.get is outside the try block: when it raises,
\* the exception leaves the generator and reaches the runner
Download(file_url) ==
    /\ log' = Append(log, Entry("INFO", "Downloading: " \o file_names[idx]))
    /\ requests' = Append(requests, file_url)
    /\ \E o \in Answers(file_url) :
        /\ remote' = (file_url :> o) @@ remote
        /\ IF o.get = "raise"
             THEN /\ genPc' = "raised"
                  /\ conPc' = "failed"
                  /\ UNCHANGED response
             ELSE /\ genPc' = "status"
                  /\ response' = o
                  /\ UNCHANGED conPc

GenDownload_nobase ==
    /\ Running("loop")
    /\ idx <= Len(file_names)
    /\ Download(file_names[idx])
    /\ UNCHANGED <<objVars, mainPc, exit_code, file_names, idx, df, received,
                   callerVars, directVars>>

GenDownload ==
    /\ Running("loop")
    /\ idx <= Len(file_names)
    /\ Download(base_url \o file_names[idx])
    /\ UNCHANGED <<objVars, mainPc, exit_code, file_names, idx, df, received,
                   callerVars, directVars>>

\* line 49, the list is used up: the generator returns, next() raises StopIteration
GenExhaust ==
    /\ Running("loop")
    /\ idx > Len(file_names)
    /\ genPc' = "exhausted"
    /\ conPc' = "done"
    /\ UNCHANGED <<objVars, mainPc, exit_code, genLocals, received, requests,
                   remote, log, callerVars, directVars>>

\* lines 55-59
GenStatus ==
    /\ Running("status")
    /\ IF response.status_code # HTTP_OK
         THEN /\ log' = Append(log, Entry("WARNING",
                    "Failed to download " \o file_names[idx] \o ", Status Code: "
                        \o IntStr(response.status_code)))
              /\ idx' = idx + 1
              /\ genPc' = "loop"
         ELSE /\ log' = Append(log, Entry("INFO",
                    "Successfully downloaded " \o file_names[idx]))
              /\ idx' = idx
              /\ genPc' = "try"
    /\ UNCHANGED <<objVars, mainPc, exit_code, conPc, file_names, response, df,
                   received, requests, remote, callerVars, directVars>>

\* GenProcess with the except branch yielding an empty batch for the failed file
GenProcess_yieldEmpty ==
    /\ Running("try")
    /\ LET parsed == ReadCsv(response)
       IN  /\ df' = IF parsed.ok THEN parsed.df ELSE NoDf
           /\ received' = Append(received, to_dict_records(df'))
           /\ log' = IF parsed.ok THEN log
                     ELSE Append(log, Entry("ERROR",
                            "Error processing " \o file_names[idx] \o ": " \o parsed.err))
           /\ genPc' = "suspended"
           /\ conPc' = "ready"
           /\ UNCHANGED idx
    /\ UNCHANGED <<objVars, mainPc, exit_code, file_names, response, requests,
                   remote, callerVars, directVars>>

\* GenProcess prefetching: the GET of the next file is issued before the yield
GenProcess_prefetch ==
    /\ Running("try")
    /\ LET parsed == ReadCsv(response)
       IN  IF parsed.ok
             THEN /\ df' = parsed.df
                  /\ received' = Append(received, to_dict_records(df'))
                  /\ requests' = IF idx < Len(file_names)
                                   THEN Append(requests, base_url \o file_names[idx + 1])
                                   ELSE requests
                  /\ genPc' = "suspended"
                  /\ conPc' = "ready"
                  /\ UNCHANGED <<idx, log>>
             ELSE /\ log' = Append(log, Entry("ERROR",
                        "Error processing " \o file_names[idx] \o ": " \o parsed.err))
                  /\ idx' = idx + 1
                  /\ genPc' = "loop"
                  /\ UNCHANGED <<df, received, conPc, requests>>
    /\ UNCHANGED <<objVars, mainPc, exit_code, file_names, response,
                   remote, callerVars, directVars>>

\* lines 61-64 and 67-69: read and parse the body; on success the generator
\* suspends at yield and the runner holds the batch, on any Exception the
\* error is logged and the loop goes on
GenProcess ==
    /\ Running("try")
    /\ LET parsed == ReadCsv(response)
       IN  IF parsed.ok
             THEN /\ df' = parsed.df
                  /\ received' = Append(received, to_dict_records(df'))
                  /\ genPc' = "suspended"
                  /\ conPc' = "ready"
                  /\ UNCHANGED <<idx, log>>
             ELSE /\ log' = Append(log, Entry("ERROR",
                        "Error processing " \o file_names[idx] \o ": " \o parsed.err))
                  /\ idx' = idx + 1
                  /\ genPc' = "loop"
                  /\ UNCHANGED <<df, received, conPc>>
    /\ UNCHANGED <<objVars, mainPc, exit_code, file_names, response, requests,
                   remote, callerVars, directVars>>

\* line 65, after the runner resumed the generator
GenResume ==
    /\ Running("suspended")
    /\ log' = Append(log, Entry("INFO",
            "Yielded " \o IntStr(Len(df.data)) \o " rows from " \o file_names[idx]))
    /\ idx' = idx + 1
    /\ genPc' = "loop"
    /\ UNCHANGED <<objVars, mainPc, exit_code, conPc, file_names, response, df,
                   received, requests, remote, callerVars, directVars>>

\* the runner asks the generator for its next item
RunnerNext ==
    /\ conPc = "ready"
    /\ conPc' = "waiting"
    /\ UNCHANGED <<objVars, mainPc, exit_code, genPc, genLocals, received,
                   requests, remote, log, callerVars, directVars>>

Generator == GenStart \/ GenDownload \/ GenExhaust \/ GenStatus \/ GenProcess \/ GenResume

-----------------------------------------------------------------------------
(* main *)

\* lines 80-90: the log entry, the object, get_resource(), pipeline.run starts
MainRun ==
    /\ mainPc = "start"
    /\ log' = Append(log, Entry("INFO", "Starting DLT pipeline..."))
    /\ GetResource
    /\ conPc' = "ready"
    /\ mainPc' = "running"
    /\ UNCHANGED <<objVars, exit_code, received, requests, remote, callerVars,
                   directVars>>

\* line 91: pipeline.run returned
MainFinish ==
    /\ mainPc = "running"
    /\ conPc = "done"
    /\ log' = Append(log, Entry("INFO", "All files processed and uploaded successfully!"))
    /\ mainPc' = "exited"
    /\ exit_code' = 0
    /\ UNCHANGED <<objVars, conPc, genPc, genLocals, received, requests, remote,
                   callerVars, directVars>>

\* the exception of the generator leaves pipeline.run and main uncaught
MainCrash ==
    /\ mainPc = "running"
    /\ conPc = "failed"
    /\ mainPc' = "exited"
    /\ exit_code' = 1
    /\ UNCHANGED <<objVars, conPc, genPc, genLocals, received, requests, remote,
                   log, callerVars, directVars>>

Next == MainRun \/ RunnerNext \/ Generator \/ MainFinish \/ MainCrash

Spec == Init /\ [][Next]_vars

-----------------------------------------------------------------------------
(* The object used directly: get_resource invoked and consumed MaxRuns times *)

InitTwice == InitWith(RunDates, "lib")

CallerInvoke ==
    /\ mainPc = "lib"
    /\ conPc \in {"idle", "done", "failed"}
    /\ runNo < MaxRuns
    /\ runNo' = runNo + 1
    /\ prevReceived' = received
    /\ prevRequests' = requests
    /\ received' = <<>>
    /\ requests' = <<>>
    /\ GetResource
    /\ conPc' = "ready"
    /\ UNCHANGED <<objVars, mainPc, exit_code, remote, log, directVars>>

NextTwice == CallerInvoke \/ RunnerNext \/ Generator

SpecTwice == InitTwice /\ [][NextTwice]_vars

-----------------------------------------------------------------------------
(* generate_file_names called directly *)

InitNames == InitWith(NameDates, "lib")

CallGenerate ==
    /\ ~called
    /\ ret' = generate_file_names
    /\ called' = TRUE
    /\ UNCHANGED <<objVars, mainPc, exit_code, conPc, genPc, genLocals, received,
                   requests, remote, log, callerVars>>

NextNames == CallGenerate

SpecNames == InitNames /\ [][NextNames]_vars

-----------------------------------------------------------------------------
(* Vocabulary of the properties *)

\* the URL the i-th enumerated file is to be fetched from
UrlAt(i) ==
    "https://github.com/DataTalksClub/nyc-tlc-data/releases/download/"
        \o taxi_type \o "/" \o file_names[i]

Files == 1..Len(file_names)

\* a GET for file i was issued in this run
Attempted(i) == \E k \in 1..Len(requests) : requests[k] = UrlAt(i)

\* what the server did with the GET of an attempted file
OutcomeOf(i) == remote[UrlAt(i)]

Non200(i) == OutcomeOf(i).get = "ok" /\ OutcomeOf(i).status_code # 200

Got200(i) == OutcomeOf(i).get = "ok" /\ OutcomeOf(i).status_code = 200

GetRaised(i) == OutcomeOf(i).get = "raise"

\* the body of file i decompresses, decodes and parses
ParsesFine(i) ==
    LET b == OutcomeOf(i).content
    IN  b.read_ok /\ b.gzip /\ b.utf8 /\ b.csv.well_formed

\* the body of file i arrives but is bad gzip, bad UTF-8 or bad CSV
BadContent(i) ==
    LET b == OutcomeOf(i).content
    IN  b.read_ok /\ ~(b.gzip /\ b.utf8 /\ b.csv.well_formed)

\* the rows of file i as a batch
BatchOf(i) == <<[VendorID |-> 1, source |-> UrlAt(i)]>>

Yielded(i) == \E k \in 1..Len(received) : received[k] = BatchOf(i)

\* the loop has left file i behind
Past(i) == idx > i

RunOver == genPc \in {"exhausted", "raised"}

LaterAttempted(i) == \A j \in Files : j > i => Attempted(j)

Logged(level, msg) == \E k \in 1..Len(log) : log[k] = [level |-> level, msg |-> msg]

FinalEntry == [level |-> "INFO", msg |-> "All files processed and uploaded successfully!"]

\* calendar months as numbers, and their text, written out
MonthNo(date) == date.y * 12 + date.m - 1

MonthText == <<"01", "02", "03", "04", "05", "06", "07", "08", "09", "10", "11", "12">>

YearText(y) ==
    CASE y = 2021 -> "2021" [] y = 2022 -> "2022" [] y = 2023 -> "2023"
      [] y = 2024 -> "2024" [] y = 2025 -> "2025" [] y = 2026 -> "2026"

NameOfMonth(t, n) ==
    t \o "_tripdata_" \o YearText(n \div 12) \o "-" \o MonthText[(n % 12) + 1] \o ".csv.gz"

\* one name per month from month number a to month number b, ascending
NamesBetween(t, a, b) ==
    IF a > b THEN <<>> ELSE [i \in 1..(b - a + 1) |-> NameOfMonth(t, a + i - 1)]

NoDay(date) == date.d = 0

\* the files a batch can have come from: attempted, answered 200, body parsed
SourcesOf(b) ==
    {i \in Files : Attempted(i) /\ Got200(i) /\ ParsesFine(i) /\ b = BatchOf(i)}

IsPrefix(s, t) == Len(s) <= Len(t) /\ \A k \in 1..Len(s) : s[k] = t[k]

-----------------------------------------------------------------------------
(* Properties *)

\* C1: every file whose GET returned a status other than 200 gets a warning
\* entry naming the file and the status code, yields no batch, and every
\* later file of the list still gets its download attempt.
C1_Non200Skipped ==
    \A i \in Files :
        (Attempted(i) /\ Non200(i) /\ Past(i)) =>
            /\ Logged("WARNING", "Failed to download " \o file_names[i]
                    \o ", Status Code: " \o IntStr(OutcomeOf(i).status_code))
            /\ ~Yielded(i)
            /\ (RunOver => LaterAttempted(i))

\* C2: an exception raised by the GET of one file does not crash the run: the
\* generator does not die of it, the file yields no batch, and every later
\* file of the list is attempted.
C2_TransportExceptionSkipped ==
    \A i \in Files :
        (Attempted(i) /\ GetRaised(i)) =>
            /\ genPc # "raised"
            /\ conPc # "failed"
            /\ ~Yielded(i)
            /\ (RunOver => LaterAttempted(i))

\* C3: every file fetched with status 200 whose body is bad gzip, bad UTF-8 or
\* bad CSV gets an error entry naming the file, yields no batch, and every
\* later file of the list still gets its download attempt.
C3_ParseFailureSkipped ==
    \A i \in Files :
        (Attempted(i) /\ Got200(i) /\ BadContent(i) /\ Past(i)) =>
            /\ \E e \in {"Not a gzipped file", "'utf-8' codec can't decode byte",
                         "Error tokenizing data"} :
                    Logged("ERROR", "Error processing " \o file_names[i] \o ": " \o e)
            /\ ~Yielded(i)
            /\ (RunOver => LaterAttempted(i))

\* C4: for months start_month and end_month, generate_file_names returns
\* exactly the names {category}_tripdata_{YYYY}-{MM}.csv.gz of the months
\* from start_month to end_month inclusive, ascending, without gap or
\* duplicate, across year boundaries, and the empty sequence when
\* start_month > end_month.
C4_FileNamesExact ==
    (called /\ NoDay(start_date) /\ NoDay(end_date)) =>
        /\ ret = NamesBetween(taxi_type, MonthNo(start_date), MonthNo(end_date))
        /\ (MonthNo(start_date) > MonthNo(end_date) => ret = <<>>)
        /\ (/\ taxi_type = "yellow"
            /\ start_date = [y |-> 2023, m |-> 1, d |-> 0]
            /\ end_date = [y |-> 2023, m |-> 3, d |-> 0])
             => ret = <<"yellow_tripdata_2023-01.csv.gz", "yellow_tripdata_2023-02.csv.gz",
                        "yellow_tripdata_2023-03.csv.gz">>

\* a range that crosses the year boundary was enumerated
C4_Witness ==
    /\ called
    /\ start_date = [y |-> 2022, m |-> 11, d |-> 0]
    /\ end_date = [y |-> 2023, m |-> 2, d |-> 0]
    /\ Len(ret) = 4
    /\ ret[3] = taxi_type \o "_tripdata_2023-01.csv.gz"

\* C5: the yielded batches are a subsequence of the enumerated files in month
\* order: every batch comes from a file whose GET returned 200 and whose body
\* parsed, no file yields two batches, and a batch of an earlier month never
\* follows a batch of a later month.
C5_BatchesInMonthOrder ==
    /\ \A k \in 1..Len(received) : SourcesOf(received[k]) # {}
    /\ \A k, l \in 1..Len(received) :
          k < l => \A i \in SourcesOf(received[k]), j \in SourcesOf(received[l]) : i < j

\* a used-up run of three files in which the second yielded nothing and the others a batch each
C5_Witness ==
    /\ genPc = "exhausted"
    /\ Len(file_names) = 3
    /\ Len(received) = 2
    /\ ~Yielded(2)

\* C6: the generator is lazy with one file in flight: while it is suspended
\* at the yield of file i no GET for a later file has been issued, and the GET
\* of file i+1 is issued only after the batch of file i (if it produced one)
\* was handed to the runner and the runner resumed the generator.
C6_OneFileInFlight ==
    /\ genPc = "suspended" =>
          /\ idx \in Files
          /\ Len(requests) = idx
          /\ requests[idx] = UrlAt(idx)
          /\ received # <<>>
          /\ received[Len(received)] = BatchOf(idx)
    /\ \A i \in Files :
          (Attempted(i) /\ Got200(i) /\ ParsesFine(i) /\ i < Len(file_names)
                /\ Attempted(i + 1)) =>
              /\ Yielded(i)
              /\ ~(genPc = "suspended" /\ idx = i)
    /\ conPc = "ready" => genPc \in {"created", "suspended"}

\* the runner holds the batch of the second file, the first one's handed over before, a third file to come
C6_Witness ==
    /\ genPc = "suspended"
    /\ conPc = "ready"
    /\ idx = 2
    /\ Len(received) = 2
    /\ Len(file_names) = 3

\* C7: consuming the resource of the same object a second time against the
\* same remote answers fetches the same URLs and yields the same batches as
\* the time before, starting again from the first file.
C7_RepeatRunIdentical ==
    runNo >= 2 =>
        /\ IsPrefix(requests, prevRequests)
        /\ IsPrefix(received, prevReceived)
        /\ (conPc \in {"done", "failed"} =>
                requests = prevRequests /\ received = prevReceived)
        /\ (genPc \notin {"created"} =>
                file_names = NamesBetween(taxi_type, MonthNo(start_date), MonthNo(end_date)))
        /\ (requests # <<>> => requests[1] = UrlAt(1))

\* a second full consumption of three files that yielded two batches
C7_Witness ==
    /\ runNo = 2
    /\ conPc = "done"
    /\ Len(requests) = 3
    /\ Len(received) = 2

\* C8: with well-formed dates the run always ends with exit status 0 and the
\* final "All files processed and uploaded successfully!" entry, whatever
\* the outcomes of the files are.
C8_AlwaysExitsZero ==
    mainPc = "exited" =>
        /\ exit_code = 0
        /\ log # <<>>
        /\ log[Len(log)] = FinalEntry

\* C9: exactly one GET per enumerated file, in list order, to base_url +
\* file_name: no file is requested twice, and once the generator is used up
\* no file is left unrequested.
C9_OneGetPerFile ==
    /\ Len(requests) <= Len(file_names)
    /\ \A k \in 1..Len(requests) : requests[k] = UrlAt(k)
    /\ \A k, l \in 1..Len(requests) : k # l => requests[k] # requests[l]
    /\ genPc = "exhausted" => Len(requests) = Len(file_names)

\* a used-up run of three files: a non-200, a parse failure and a success
C9_Witness ==
    /\ genPc = "exhausted"
    /\ Len(requests) = 3
    /\ Non200(1)
    /\ Got200(2) /\ BadContent(2)
    /\ Yielded(3)

\* C10 as stated: for dates that carry a day, the result holds one name for
\* every month from the start date's month to the end date's month, the
\* start date's own month included.
C10_DayIgnored ==
    (called /\ ~NoDay(start_date) /\ ~NoDay(end_date)) =>
        ret = NamesBetween(taxi_type, MonthNo(start_date), MonthNo(end_date))

\* C10 amended: for dates that carry a day, the result holds one name for
\* every month whose first day lies between the start date and the end date
\* inclusive: from the start date's month when its day is 1, from the month
\* after it otherwise, to the end date's month.
C10_MonthStartsInRange ==
    (called /\ ~NoDay(start_date) /\ ~NoDay(end_date)) =>
        ret = NamesBetween(taxi_type,
                  IF start_date.d = 1 THEN MonthNo(start_date) ELSE MonthNo(start_date) + 1,
                  MonthNo(end_date))

\* start 2023-01-15, end 2023-03-20: the names of February and March only
C10_Witness ==
    /\ called
    /\ taxi_type = "green"
    /\ start_date = [y |-> 2023, m |-> 1, d |-> 15]
    /\ end_date = [y |-> 2023, m |-> 3, d |-> 20]
    /\ ret = <<"green_tripdata_2023-02.csv.gz", "green_tripdata_2023-03.csv.gz">>

====
